---- MODULE Spec2Model ----
(***************************************************************************)
(* Job orchestration of src/app.py: the Flask handlers generate, demo,     *)
(* get_task and list_tasks, the background thread run_task with its        *)
(* helpers save_info and save_progress, the build child process with its   *)
(* two pipes, and the per-job files info.json and progress.json.           *)
(*                                                                         *)
(* One request slot r stands for one POST to /api/generate or /api/demo    *)
(* and, once the handler has started it, for that request's run_task       *)
(* thread and its build child.  Files are keyed by the task id, which the  *)
(* handler draws from uuid4()[:8] without any uniqueness check.            *)
(*                                                                         *)
(* Path.write_text opens the file with mode 'w' (truncating it) and then   *)
(* writes: the model takes the two as separate steps, so a reader or a     *)
(* failure can fall between them.                                          *)
(*                                                                         *)
(* The build's write of a line and the loop's read of it are one step      *)
(* (ReadLineFrom); the standard-error pipe, which run_task reads only      *)
(* after the build has exited, is kept with its fill.  The site directory  *)
(* the build produces (quiz_data.json, the file listing of get_task) is    *)
(* outside the model.                                                      *)
(***************************************************************************)
EXTENDS Integers, Sequences, FiniteSets, TLC

\* ------------------------------------------------------------------ bounds
MaxReq == 2
NumIds == 2
MaxFaults == 1

PipeCap == 1

Reqs == 1..MaxReq
TaskIds == 1..NumIds
NoId == 0

VARIABLES
  req,      \* per request: the handler's position, its inputs and its task id
  sup,      \* per request: the run_task thread (line: the loop variable of
            \* line 88, which nothing reads once an exception is raised or
            \* run_task returns and which is dropped there; hist: the
            \* terminal statuses it has written to info.json, in order)
  child,    \* per request: the build process started by run_task
  info,     \* per task id: content of <task_dir>/info.json
  prog,     \* per task id: content of <task_dir>/progress.json
  dirs,     \* task ids whose directory exists
  html,     \* task ids whose directory holds a *.html file
  clock,    \* datetime.now(), as a logical time
  faults,   \* I/O failures so far
  resp      \* the last answer of get_task or list_tasks

vars == <<req, sup, child, info, prog, dirs, html, clock, faults, resp>>

\* ------------------------------------------------------------ file contents
AbsentFile == [file |-> "absent"]
TornFile == [file |-> "torn"]

\* The request body of /api/generate: url, question_type, model_config.
GenInputs ==
  { [url |-> "u1", question_type |-> "choice", model_config |-> "null"],
    [url |-> "u2", question_type |-> "answer", model_config |-> "m1"] }

\* The page title extracted from the fetched document ("" when none is found).
Titles == {"", "paper"}

\* How the fetch command ends: exit 0 leaving a *.html file, exit 0 leaving
\* none, a nonzero exit leaving none, a nonzero exit leaving one,
\* subprocess.TimeoutExpired, or another exception
\* (the fetcher configuration cannot be read, the command cannot be run).
FetchOutcomes ==
  {"html", "nohtml", "nonzero", "nonzero_html", "timeout", "error"}

\* generate: the dictionary written as the initial info.json
GenerateInfo(id, in, title, now) ==
  [file |-> "ok", id |-> id, url |-> in.url, title |-> title,
   question_type |-> in.question_type, model_config |-> in.model_config,
   created_at |-> now, status |-> "building", error |-> "unset"]

\* demo: the dictionary written as the initial info.json; it has no title,
\* question_type or model_config key
DemoInfo(id, now) ==
  [file |-> "ok", id |-> id, url |-> "demo", title |-> "unset",
   question_type |-> "unset", model_config |-> "unset",
   created_at |-> now, status |-> "building", error |-> "unset"]

\* The keys of a Job Record other than status and error.
Meta(rec) ==
  [id |-> rec.id, url |-> rec.url, title |-> rec.title,
   question_type |-> rec.question_type, model_config |-> rec.model_config,
   created_at |-> rec.created_at]

NoRec == [file |-> "none"]

IdleReq == [phase |-> "idle", kind |-> "none", id |-> NoId, rec |-> NoRec,
            fetch |-> "none"]
NoSup == [pc |-> "none", w |-> FALSE, out |-> "none", rec |-> NoRec,
          err |-> "", line |-> <<>>, hist |-> <<>>]
NoChild == [st |-> "none", stdout |-> "none", errFill |-> 0,
            blocked |-> FALSE, rc |-> 0]
NoResp == [op |-> "none", id |-> NoId, code |-> 0]

\* A request refused for its empty url (generate, lines 162-163): it has
\* drawn no id and left nothing behind.
RefusedReq == [IdleReq EXCEPT !.phase = "err_url", !.kind = "generate"]

\* The service after construction, with the requests of live still to come
\* and the others already refused.
InitWith(live) ==
  /\ req = [r \in Reqs |-> IF r \in live THEN IdleReq ELSE RefusedReq]
  /\ sup = [r \in Reqs |-> NoSup]
  /\ child = [r \in Reqs |-> NoChild]
  /\ info = [i \in TaskIds |-> AbsentFile]
  /\ prog = [i \in TaskIds |-> AbsentFile]
  /\ dirs = {}
  /\ html = {}
  /\ clock = 0
  /\ faults = 0
  /\ resp = NoResp

\* one job at a time, with every input
Init == InitWith({1})

\* MaxReq concurrent jobs
InitJobs == InitWith(Reqs)

\* ------------------------------------------------------ generate and demo

\* generate, lines 158-163: an empty url is refused before any id is drawn
GenerateNoUrl(r) ==
  /\ req[r].phase = "idle"
  /\ req' = [req EXCEPT ![r] = [@ EXCEPT !.phase = "err_url",
               !.kind = "generate"]]
  /\ UNCHANGED <<sup, child, info, prog, dirs, html, clock, faults, resp>>

\* generate, lines 165-167: the id is the first 8 hex digits of a uuid4 and
\* mkdir(exist_ok=True) accepts a directory that is already there
GenerateBeginFrom(r, inputs) ==
  /\ req[r].phase = "idle"
  /\ \E id \in TaskIds, in \in inputs :
       /\ req' = [req EXCEPT ![r] = [@ EXCEPT !.phase = "fetch",
                    !.kind = "generate", !.id = id,
                    !.rec = GenerateInfo(id, in, "", 0)]]
       /\ dirs' = dirs \cup {id}
  /\ UNCHANGED <<sup, child, info, prog, html, clock, faults, resp>>

\* generate with any of the request bodies of GenInputs
GenerateBegin(r) == GenerateBeginFrom(r, GenInputs)

\* generate, lines 185-191 and 252-255: does the handler give up after the
\* fetch?  hasHtml: task_dir.glob("*.html") is not empty
FetchFails(outcome, hasHtml) ==
  \/ outcome \in {"nonzero", "nonzero_html", "timeout", "error"}
  \/ ~hasHtml

\* generate, lines 172-240: run the fetch command, look for the document,
\* extract the title
GenerateFetchFrom(r, titles) ==
  /\ req[r].phase = "fetch"
  /\ req[r].kind = "generate"
  /\ \E outcome \in FetchOutcomes, title \in titles :
       LET id == req[r].id
           html2 == IF outcome \in {"html", "nonzero_html"}
                      THEN html \cup {id} ELSE html
       IN /\ html' = html2
          /\ IF FetchFails(outcome, id \in html2)
               THEN req' = [req EXCEPT ![r] = [@ EXCEPT !.phase = "err_fetch",
                              !.fetch = outcome]]
               ELSE req' = [req EXCEPT ![r] = [@ EXCEPT !.phase = "info",
                              !.fetch = outcome,
                              !.rec = [@ EXCEPT !.title = title]]]
  /\ UNCHANGED <<sup, child, info, prog, dirs, clock, faults, resp>>

\* the fetch of a document with any of the titles of Titles
GenerateFetch(r) == GenerateFetchFrom(r, Titles)

\* demo, lines 306-315: draw the id, make the directory, copy the sample
DemoBegin(r) ==
  /\ req[r].phase = "idle"
  /\ \E id \in TaskIds, sampleExists \in BOOLEAN :
       /\ dirs' = dirs \cup {id}
       /\ IF sampleExists
            THEN /\ html' = html \cup {id}
                 /\ req' = [req EXCEPT ![r] = [@ EXCEPT !.phase = "info",
                              !.kind = "demo", !.id = id,
                              !.rec = DemoInfo(id, 0)]]
            ELSE /\ html' = html
                 /\ req' = [req EXCEPT ![r] = [@ EXCEPT !.phase = "err_sample",
                              !.kind = "demo", !.id = id]]
  /\ UNCHANGED <<sup, child, info, prog, clock, faults, resp>>

\* SubmitOpenInfo leaving the first write of info.json to run_task: the
\* handler goes on to start the thread with no record written
SubmitSkipInfo(r) ==
  /\ req[r].phase = "info"
  /\ clock' = clock + 1
  /\ req' = [req EXCEPT ![r] = [@ EXCEPT !.phase = "start",
               !.rec = [@ EXCEPT !.created_at = clock + 1]]]
  /\ UNCHANGED <<sup, child, info, prog, dirs, html, faults, resp>>

\* generate, lines 243-244, and demo, lines 317-318: build the record with
\* datetime.now() and open info.json for writing, which truncates it
SubmitOpenInfo(r) ==
  /\ req[r].phase = "info"
  /\ clock' = clock + 1
  /\ req' = [req EXCEPT ![r] = [@ EXCEPT !.phase = "info_w",
               !.rec = [@ EXCEPT !.created_at = clock + 1]]]
  /\ info' = [info EXCEPT ![req[r].id] = TornFile]
  /\ UNCHANGED <<sup, child, prog, dirs, html, faults, resp>>

\* the write of the record into the opened info.json
SubmitWriteInfo(r) ==
  /\ req[r].phase = "info_w"
  /\ info' = [info EXCEPT ![req[r].id] = req[r].rec]
  /\ req' = [req EXCEPT ![r] = [@ EXCEPT !.phase = "start"]]
  /\ UNCHANGED <<sup, child, prog, dirs, html, clock, faults, resp>>

\* a failing open or write of info.json in the handler: generate's
\* except Exception answers with an error (lines 254-255), demo has no
\* handler and the request ends with an unhandled exception
SubmitFault(r) ==
  /\ req[r].phase \in {"info", "info_w"}
  /\ faults < MaxFaults
  /\ faults' = faults + 1
  /\ req' = [req EXCEPT ![r] = [@ EXCEPT !.phase =
               IF req[r].kind = "generate" THEN "err_io" ELSE "exc"]]
  /\ UNCHANGED <<sup, child, info, prog, dirs, html, clock, resp>>

\* generate, lines 247-250, and demo, lines 320-323: start the thread and
\* answer with the task id
SubmitStart(r) ==
  /\ req[r].phase = "start"
  /\ req' = [req EXCEPT ![r] = [@ EXCEPT !.phase = "ok"]]
  /\ sup' = [sup EXCEPT ![r] = [NoSup EXCEPT !.pc = "init_info"]]
  /\ UNCHANGED <<child, info, prog, dirs, html, clock, faults, resp>>

\* ------------------------------------------------------- progress lines
\* A line of the build's standard output is a sequence of tokens:
\*   "Q" the question marker, "K" the knowledge-point-progress marker (which
\*   contains the knowledge-point marker), "S" the starting marker, "P" the
\*   knowledge-point marker, "_" white space, "x" other text, and a pair
\*   of digit strings "d/t".
Pairs == {"0/0", "1/2", "2/2", "2/3"}

\* int() of the first group of a match
PairDone(p) ==
  CASE p = "0/0" -> 0 [] p = "1/2" -> 1 [] p = "2/2" -> 2 [] p = "2/3" -> 2

\* int() of the second group of a match
PairTotal(p) ==
  CASE p = "0/0" -> 0 [] p = "1/2" -> 2 [] p = "2/2" -> 2 [] p = "2/3" -> 3

Lines ==
  { <<"x", "Q", "_", "1/2">>,
    <<"x", "Q", "_", "2/2">>,
    <<"Q", "_", "0/0">>,
    <<"Q", "_", "2/3">>,
    <<"K", "_", "1/2">>,
    <<"Q", "_", "1/2", "K", "_", "2/2">>,
    <<"S", "x", "P">>,
    <<"S", "x">>,
    <<"Q", "1/2">>,
    <<"x">> }

\* re.search(marker + r'\s+(\d+)/(\d+)', line): the places where the marker
\* is followed by white space and then a pair
MatchesAt(line, marker) ==
  { i \in 1..Len(line) :
      /\ line[i] = marker
      /\ \E j \in (i + 2)..Len(line) :
           /\ line[j] \in Pairs
           /\ \A k \in (i + 1)..(j - 1) : line[k] = "_" }

\* the pair of the leftmost match
FirstPair(line, marker) ==
  LET i == CHOOSE m \in MatchesAt(line, marker) :
             \A n \in MatchesAt(line, marker) : m <= n
      j == CHOOSE n \in (i + 2)..Len(line) :
             /\ line[n] \in Pairs
             /\ \A k \in (i + 1)..(n - 1) : line[k] = "_"
  IN line[j]

\* substring tests of line 108
Contains(line, tok) == \E i \in 1..Len(line) : line[i] = tok

\* ProgressRecord with the percentage rounded to the nearest integer
ProgressRecordRounded(stage, current, total, message) ==
  [file |-> "ok", stage |-> stage, current |-> current, total |-> total,
   message |-> message,
   percent |-> IF total > 0 THEN (current * 200 + total) \div (2 * total)
               ELSE 0]

\* save_progress, lines 47-56: the dictionary written as progress.json.
\* int() truncates the float quotient, which for counts below 2^53 / 100 is
\* the floor of the exact quotient.
ProgressRecord(stage, current, total, message) ==
  [file |-> "ok", stage |-> stage, current |-> current, total |-> total,
   message |-> message,
   percent |-> IF total > 0 THEN (current * 100) \div total ELSE 0]

NoUpdate == [file |-> "none"]

\* LineUpdate trying the knowledge-point pattern before the question pattern
LineUpdateKnowledgeFirst(line) ==
  IF MatchesAt(line, "K") # {}
    THEN LET p == FirstPair(line, "K")
         IN ProgressRecord("generating knowledge summary", PairDone(p),
                           PairTotal(p), <<"AI summarizing knowledge points", p>>)
  ELSE IF MatchesAt(line, "Q") # {}
    THEN LET p == FirstPair(line, "Q")
         IN ProgressRecord("generating question analysis", PairDone(p),
                           PairTotal(p), <<"AI parsing questions", p>>)
  ELSE IF Contains(line, "S") /\ (Contains(line, "P") \/ Contains(line, "K"))
    THEN ProgressRecord("analyzing knowledge points", 0, 1,
                        <<"analyzing knowledge points", "">>)
  ELSE NoUpdate

\* run_task, lines 88-109: the progress a line of output leads to
LineUpdate(line) ==
  IF MatchesAt(line, "Q") # {}
    THEN LET p == FirstPair(line, "Q")
         IN ProgressRecord("generating question analysis", PairDone(p),
                           PairTotal(p), <<"AI parsing questions", p>>)
  ELSE IF MatchesAt(line, "K") # {}
    THEN LET p == FirstPair(line, "K")
         IN ProgressRecord("generating knowledge summary", PairDone(p),
                           PairTotal(p), <<"AI summarizing knowledge points", p>>)
  ELSE IF Contains(line, "S") /\ (Contains(line, "P") \/ Contains(line, "K"))
    THEN ProgressRecord("analyzing knowledge points", 0, 1,
                        <<"analyzing knowledge points", "">>)
  ELSE NoUpdate

\* ---------------------------------------------------------------- run_task

\* process.stderr.read()[-500:] of line 117, for a standard error of n chunks
StderrTail(n) == IF n = 0 THEN "" ELSE "stderr tail"

\* run_task, line 121: the error recorded on subprocess.TimeoutExpired
TimeoutMessage == "processing timed out (30 minutes)"

\* run_task, lines 113-125: the status each terminal branch records
TerminalStatus(out) == IF out = "completed" THEN "completed" ELSE "failed"

\* run_task, lines 113-125: the error each terminal branch passes to save_info
TerminalError(out, err) ==
  CASE out = "completed" -> ""
    [] out = "failed" -> err
    [] out = "timeout" -> TimeoutMessage
    [] out = "exception" -> "exception message"

\* run_task, lines 113-125: the progress each terminal branch records
TerminalProgress(out) ==
  CASE out = "completed" ->
         ProgressRecord("done", 1, 1, <<"generation complete", "">>)
    [] out = "failed" ->
         ProgressRecord("failed", 0, 1, <<"generation failed", "">>)
    [] out = "timeout" ->
         ProgressRecord("failed", 0, 1, <<"timed out", "">>)
    [] out = "exception" ->
         ProgressRecord("failed", 0, 1, <<"exception message", "">>)

\* SaveInfoRecord building a new dictionary whatever info.json holds
SaveInfoRecordFresh(old, id, url, now, status, error) ==
  [file |-> "ok", id |-> id, url |-> url, title |-> "unset",
   question_type |-> "unset", model_config |-> "unset", created_at |-> now,
   status |-> status, error |-> IF error # "" THEN error ELSE "unset"]

\* save_info, lines 34-43: the dictionary save_info writes, from the
\* content it found in info.json
SaveInfoRecord(old, id, url, now, status, error) ==
  LET base == IF old.file = "ok"
                THEN old
                ELSE [file |-> "ok", id |-> id, url |-> url,
                      title |-> "unset", question_type |-> "unset",
                      model_config |-> "unset", created_at |-> now,
                      status |-> "unset", error |-> "unset"]
  IN [base EXCEPT !.status = status,
                  !.error = IF error # "" THEN error ELSE @]

\* run_task, lines 58-59 and 74-125: where an exception raised at s.pc leaves
\* the thread.  Lines 58-59 are outside the try; an exception in the try
\* block enters except Exception; an exception in a handler leaves run_task.
AfterRaise(s) ==
  IF s.pc \in {"popen", "read", "line_prog", "wait"}
     \/ (s.pc \in {"term_info", "term_prog"} /\ s.out \in {"completed", "failed"})
    THEN [s EXCEPT !.pc = "term_info", !.out = "exception", !.w = FALSE,
                   !.rec = NoRec, !.line = <<>>]
    ELSE [s EXCEPT !.pc = "raised", !.w = FALSE, !.rec = NoRec,
                   !.line = <<>>]

\* save_info, lines 35-45, up to the open of write_text: read the record,
\* build the new one, open info.json for writing, which truncates it.
\* json.loads raises on a file that holds no complete record.
SaveInfoOpen(r) ==
  /\ sup[r].pc \in {"init_info", "term_info"}
  /\ ~sup[r].w
  /\ LET id == req[r].id
         old == info[id]
         status == IF sup[r].pc = "init_info" THEN "building"
                   ELSE TerminalStatus(sup[r].out)
         error == IF sup[r].pc = "init_info" THEN ""
                  ELSE TerminalError(sup[r].out, sup[r].err)
     IN IF old.file = "torn"
          THEN /\ sup' = [sup EXCEPT ![r] = AfterRaise(@)]
               /\ UNCHANGED <<info, clock>>
          ELSE /\ sup' = [sup EXCEPT ![r] = [@ EXCEPT !.w = TRUE,
                            !.rec = SaveInfoRecord(old, id, req[r].rec.url,
                                                   clock + 1, status, error)]]
               /\ info' = [info EXCEPT ![id] = TornFile]
               /\ clock' = IF old.file = "ok" THEN clock ELSE clock + 1
  /\ UNCHANGED <<req, child, prog, dirs, html, faults, resp>>

\* save_info, lines 44-45: the write into the opened info.json
SaveInfoWrite(r) ==
  /\ sup[r].pc \in {"init_info", "term_info"}
  /\ sup[r].w
  /\ info' = [info EXCEPT ![req[r].id] = sup[r].rec]
  /\ sup' = [sup EXCEPT ![r] = [@ EXCEPT !.w = FALSE, !.rec = NoRec,
               !.pc = IF @ = "init_info" THEN "init_prog" ELSE "term_prog",
               !.hist = IF sup[r].pc = "term_info"
                          THEN Append(@, sup[r].rec.status) ELSE @]]
  /\ UNCHANGED <<req, child, prog, dirs, html, clock, faults, resp>>

\* save_progress, lines 47-56, up to the open of write_text
SaveProgressOpen(r) ==
  /\ sup[r].pc \in {"init_prog", "line_prog", "term_prog"}
  /\ ~sup[r].w
  /\ prog' = [prog EXCEPT ![req[r].id] = TornFile]
  /\ sup' = [sup EXCEPT ![r] = [@ EXCEPT !.w = TRUE,
               !.rec = CASE sup[r].pc = "init_prog" ->
                              ProgressRecord("initializing", 0, 100,
                                             <<"starting", "">>)
                         [] sup[r].pc = "line_prog" -> @
                         [] sup[r].pc = "term_prog" ->
                              TerminalProgress(sup[r].out)]]
  /\ UNCHANGED <<req, child, info, dirs, html, clock, faults, resp>>

\* save_progress, lines 55-56: the write into the opened progress.json
SaveProgressWrite(r) ==
  /\ sup[r].pc \in {"init_prog", "line_prog", "term_prog"}
  /\ sup[r].w
  /\ prog' = [prog EXCEPT ![req[r].id] = sup[r].rec]
  /\ sup' = [sup EXCEPT ![r] = [@ EXCEPT !.w = FALSE, !.rec = NoRec,
               !.pc = CASE @ = "init_prog" -> "popen"
                        [] @ = "line_prog" -> "read"
                        [] @ = "term_prog" -> "done",
               !.line = IF sup[r].pc = "term_prog" THEN <<>> ELSE @]]
  /\ UNCHANGED <<req, child, info, dirs, html, clock, faults, resp>>

\* An I/O failure in run_task: the open or the write of info.json or
\* progress.json fails (a failed open leaves the file as it was, a failed
\* write leaves it truncated), Popen cannot start the build, or reading a
\* line of its output fails.
SupFault(r) ==
  /\ \/ sup[r].pc \in {"init_info", "init_prog", "line_prog", "term_info",
                        "term_prog", "popen"}
     \/ /\ sup[r].pc = "read"
        /\ child[r].st = "running"
        /\ child[r].stdout = "open"
        /\ ~child[r].blocked
  /\ faults < MaxFaults
  /\ faults' = faults + 1
  /\ sup' = [sup EXCEPT ![r] = AfterRaise(@)]
  /\ UNCHANGED <<req, child, info, prog, dirs, html, clock, resp>>

\* run_task, lines 76-79: start the build with both outputs piped
Popen(r) ==
  /\ sup[r].pc = "popen"
  /\ sup' = [sup EXCEPT ![r] = [@ EXCEPT !.pc = "read"]]
  /\ child' = [child EXCEPT ![r] = [NoChild EXCEPT !.st = "running",
                                                    !.stdout = "open"]]
  /\ UNCHANGED <<req, info, prog, dirs, html, clock, faults, resp>>

\* ReadLineFrom with a loop that, on a line it does not recognize, stores
\* the starting record again
ReadLineFromResetting(r, lines) ==
  /\ sup[r].pc = "read"
  /\ child[r].st = "running"
  /\ child[r].stdout = "open"
  /\ ~child[r].blocked
  /\ \E line \in lines :
       sup' = [sup EXCEPT ![r] = [@ EXCEPT !.pc = "line_prog",
                 !.rec = IF LineUpdate(line) = NoUpdate
                           THEN ProgressRecord("initializing", 0, 100,
                                               <<"starting", "">>)
                           ELSE LineUpdate(line),
                 !.line = line]]
  /\ UNCHANGED <<req, child, info, prog, dirs, html, clock, faults, resp>>

\* run_task, lines 88-109: the build writes a line to its standard output
\* and the loop reads it
ReadLineFrom(r, lines) ==
  /\ sup[r].pc = "read"
  /\ child[r].st = "running"
  /\ child[r].stdout = "open"
  /\ ~child[r].blocked
  /\ \E line \in lines :
       IF LineUpdate(line) = NoUpdate
         THEN sup' = [sup EXCEPT ![r] = [@ EXCEPT !.line = line]]
         ELSE sup' = [sup EXCEPT ![r] = [@ EXCEPT !.pc = "line_prog",
                        !.rec = LineUpdate(line), !.line = line]]
  /\ UNCHANGED <<req, child, info, prog, dirs, html, clock, faults, resp>>

\* the loop reading any of the lines of Lines
ReadLine(r) == ReadLineFrom(r, Lines)

\* run_task, line 88: the loop ends when standard output reaches end of file
ReadEOF(r) ==
  /\ sup[r].pc = "read"
  /\ child[r].stdout = "closed"
  /\ sup' = [sup EXCEPT ![r] = [@ EXCEPT !.pc = "wait"]]
  /\ UNCHANGED <<req, child, info, prog, dirs, html, clock, faults, resp>>

\* run_task, lines 111-117: process.wait returns the exit code; on a
\* nonzero code the rest of standard error is read
WaitExit(r) ==
  /\ sup[r].pc = "wait"
  /\ child[r].st = "exited"
  /\ IF child[r].rc = 0
       THEN /\ sup' = [sup EXCEPT ![r] = [@ EXCEPT !.pc = "term_info",
                         !.out = "completed"]]
            /\ child' = child
       ELSE /\ sup' = [sup EXCEPT ![r] = [@ EXCEPT !.pc = "term_info",
                         !.out = "failed",
                         !.err = StderrTail(child[r].errFill)]]
            /\ child' = [child EXCEPT ![r] = [@ EXCEPT !.errFill = 0]]
  /\ UNCHANGED <<req, info, prog, dirs, html, clock, faults, resp>>

\* run_task, lines 111 and 120: process.wait(timeout=1800) gives up on a
\* build that has closed its standard output and is still running
WaitTimeout(r) ==
  /\ sup[r].pc = "wait"
  /\ child[r].st = "running"
  /\ sup' = [sup EXCEPT ![r] = [@ EXCEPT !.pc = "term_info",
               !.out = "timeout"]]
  /\ UNCHANGED <<req, child, info, prog, dirs, html, clock, faults, resp>>

\* ------------------------------------------------------- the build process
\* The build is an opaque command; run_task, lines 76-79, gives it a pipe
\* for standard output and one for standard error, each of bounded capacity.

\* the build writes a chunk to standard error; with the pipe full the write
\* blocks until somebody reads the pipe
ChildWriteStderr(r) ==
  /\ child[r].st = "running"
  /\ ~child[r].blocked
  /\ child' = [child EXCEPT ![r] =
       IF @.errFill < PipeCap THEN [@ EXCEPT !.errFill = @ + 1]
                              ELSE [@ EXCEPT !.blocked = TRUE]]
  /\ UNCHANGED <<req, sup, info, prog, dirs, html, clock, faults, resp>>

\* the build closes its standard output and keeps running
ChildCloseStdout(r) ==
  /\ child[r].st = "running"
  /\ ~child[r].blocked
  /\ child[r].stdout = "open"
  /\ child' = [child EXCEPT ![r] = [@ EXCEPT !.stdout = "closed"]]
  /\ UNCHANGED <<req, sup, info, prog, dirs, html, clock, faults, resp>>

\* the build exits, which closes its standard output
ChildExit(r) ==
  /\ child[r].st = "running"
  /\ ~child[r].blocked
  /\ \E rc \in {0, 1} :
       child' = [child EXCEPT ![r] = [@ EXCEPT !.st = "exited",
                   !.stdout = "closed", !.rc = rc]]
  /\ UNCHANGED <<req, sup, info, prog, dirs, html, clock, faults, resp>>

\* ------------------------------------------------ get_task and list_tasks

\* get_task, lines 258-289: the HTTP status of the answer.  404 without
\* info.json; json.loads of a file that holds no complete record raises,
\* which get_task does not handle (500).
GetTaskCode(id) ==
  IF info[id].file = "absent" THEN 404
  ELSE IF info[id].file = "torn" THEN 500
  ELSE IF prog[id].file = "torn" THEN 500
  ELSE 200

\* get_task, lines 258-270 and 289: the answer.  404 carries no record; on
\* 200 it is the content of info.json with, when progress.json exists, its
\* content under the key 'progress' (progress.file = "absent": no such key).
\* The title taken from quiz_data.json and the file listing (lines 272-288)
\* come from the site directory, which is outside the model.
GetTaskAnswer(id) ==
  [code |-> GetTaskCode(id),
   info |-> IF GetTaskCode(id) = 200 THEN info[id] ELSE NoRec,
   progress |-> IF GetTaskCode(id) = 200 THEN prog[id] ELSE NoRec]

\* GetTask leaving a trace of the poll in the job's directory
GetTaskTouching(id) ==
  /\ resp' = [op |-> "get_task", id |-> id, code |-> GetTaskCode(id)]
  /\ dirs' = dirs \cup {id}
  /\ UNCHANGED <<req, sup, child, info, prog, html, clock, faults>>

\* get_task: reads the files and answers
GetTask(id) ==
  /\ resp' = [op |-> "get_task", id |-> id, code |-> GetTaskCode(id)]
  /\ UNCHANGED <<req, sup, child, info, prog, dirs, html, clock, faults>>

\* list_tasks, lines 292-301: the HTTP status of the answer
ListTasksCode ==
  IF \E id \in dirs : info[id].file = "torn" THEN 500 ELSE 200

\* list_tasks, lines 294-301: the answer.  On 200 it holds, for every
\* directory with an info.json, the content of that file (one append per
\* directory, line 300); json.loads of a file that holds no complete record
\* ends the whole request.  The order of the list follows the directories'
\* st_mtime, which the model does not keep, so the records are given by
\* directory.
ListTasksAnswer ==
  [code |-> ListTasksCode,
   tasks |-> IF ListTasksCode = 200
               THEN [id \in {d \in dirs : info[d].file = "ok"} |-> info[id]]
               ELSE <<>>]

\* list_tasks: reads every info.json and answers
ListTasks ==
  /\ resp' = [op |-> "list_tasks", id |-> NoId, code |-> ListTasksCode]
  /\ UNCHANGED <<req, sup, child, info, prog, dirs, html, clock, faults>>

\* ------------------------------------------------------- specification
Next ==
  \/ \E r \in Reqs :
       \/ GenerateNoUrl(r)
       \/ GenerateBegin(r)
       \/ GenerateFetch(r)
       \/ DemoBegin(r)
       \/ SubmitOpenInfo(r)
       \/ SubmitWriteInfo(r)
       \/ SubmitFault(r)
       \/ SubmitStart(r)
       \/ SaveInfoOpen(r)
       \/ SaveInfoWrite(r)
       \/ SaveProgressOpen(r)
       \/ SaveProgressWrite(r)
       \/ SupFault(r)
       \/ Popen(r)
       \/ ReadLine(r)
       \/ ReadEOF(r)
       \/ WaitExit(r)
       \/ WaitTimeout(r)
       \/ ChildWriteStderr(r)
       \/ ChildCloseStdout(r)
       \/ ChildExit(r)
  \/ \E id \in TaskIds : GetTask(id)
  \/ ListTasks

Spec == Init /\ [][Next]_vars

\* Concurrent jobs: the handler and thread steps of Next, with one request
\* body, one title, two lines of build output and builds that write nothing
\* to standard error, and no queries (which change nothing the jobs read).
FewInputs == { [url |-> "u1", question_type |-> "choice", model_config |-> "null"] }
FewTitles == {"paper"}
FewLines == { <<"x", "Q", "_", "1/2">>, <<"x">> }

NextJobs ==
  \E r \in Reqs :
    \/ GenerateNoUrl(r)
    \/ GenerateBeginFrom(r, FewInputs)
    \/ GenerateFetchFrom(r, FewTitles)
    \/ DemoBegin(r)
    \/ SubmitOpenInfo(r)
    \/ SubmitWriteInfo(r)
    \/ SubmitFault(r)
    \/ SubmitStart(r)
    \/ SaveInfoOpen(r)
    \/ SaveInfoWrite(r)
    \/ SaveProgressOpen(r)
    \/ SaveProgressWrite(r)
    \/ SupFault(r)
    \/ Popen(r)
    \/ ReadLineFrom(r, FewLines)
    \/ ReadEOF(r)
    \/ WaitExit(r)
    \/ WaitTimeout(r)
    \/ ChildCloseStdout(r)
    \/ ChildExit(r)

SpecJobs == InitJobs /\ [][NextJobs]_vars

\* The thread steps of run_task that need nothing but the thread to be
\* scheduled and, for WaitTimeout, time to pass.
SupStep(r) ==
  \/ SaveInfoOpen(r)
  \/ SaveInfoWrite(r)
  \/ SaveProgressOpen(r)
  \/ SaveProgressWrite(r)
  \/ Popen(r)
  \/ ReadEOF(r)
  \/ WaitExit(r)
  \/ WaitTimeout(r)

\* One job whose thread is always scheduled again and whose clock runs; the
\* build and the failures are free to happen or not.
FairSpec == Init /\ [][Next]_vars /\ \A r \in Reqs : WF_vars(SupStep(r))

\* ------------------------------------------------------------------ claims
InfoOf(r) == info[req[r].id]
Started(r) == sup[r].pc # "none"

\* C1: once the status stored in a job's info.json is 'completed' or
\* 'failed', every later complete record of that job holds the same status:
\* the first terminal status run_task wrote stays the stored one.
C1_TerminalStatusFinal ==
  \A r \in Reqs :
    (sup[r].hist # <<>> /\ InfoOf(r).file = "ok")
      => InfoOf(r).status = sup[r].hist[1]

\* C2: run_task records a terminal status at most once per run; when a
\* second error condition arises after the first terminal write, it writes
\* nothing.
C2_OneTerminalWrite ==
  \A r \in Reqs : Len(sup[r].hist) <= 1

\* C3: while no I/O operation fails, a build that has been started and never
\* exits leads to the job's status being 'failed' with the timeout message.
C3_HungBuildTimesOut ==
  \A r \in Reqs :
    (child[r].st = "running")
      ~> (\/ child[r].st = "exited"
          \/ faults > 0
          \/ /\ req[r].id \in TaskIds
             /\ InfoOf(r).file = "ok"
             /\ InfoOf(r).status = "failed"
             /\ InfoOf(r).error = TimeoutMessage)

\* C4: the build is never blocked on a full standard-error pipe while
\* run_task waits for the next line of a standard output that is still open.
C4_NoPipeDeadlock ==
  \A r \in Reqs :
    ~(/\ child[r].st = "running"
      /\ child[r].blocked
      /\ child[r].stdout = "open"
      /\ sup[r].pc = "read")

\* C5: while no I/O operation has failed, a get_task on a submitted job and
\* a list_tasks never fail on a record run_task is rewriting: the reader never
\* finds info.json or progress.json empty or truncated, and the query never
\* ends with an unhandled exception.
C5_ReadersNeverFail ==
  \A r \in Reqs :
    (req[r].phase = "ok" /\ faults = 0)
      => (GetTaskCode(req[r].id) = 200 /\ ListTasksCode = 200)

\* C6: run_task never ends by raising, and when it has returned the job's
\* stored status is terminal (never left as 'building' or unreadable).
C6_NothingEscapes ==
  \A r \in Reqs :
    /\ sup[r].pc # "raised"
    /\ sup[r].pc = "done"
         => (InfoOf(r).file = "ok" /\ InfoOf(r).status \in {"completed", "failed"})

\* C7: every complete Job Record holds, in the keys other than status and
\* error, exactly what the handler of its job wrote at submission, whatever
\* status updates save_info has made since.
C7_MetaPreserved ==
  \A id \in TaskIds :
    info[id].file = "ok"
      => \E r \in Reqs :
           /\ req[r].id = id
           /\ req[r].phase \in {"start", "ok"}
           /\ Meta(info[id]) = Meta(req[r].rec)

\* C7 witness: a generate job's record after the status update to 'failed'
\* with an error, still carrying its title and model configuration.
C7_Witness ==
  \E r \in Reqs :
    /\ sup[r].pc = "done"
    /\ InfoOf(r).file = "ok"
    /\ InfoOf(r).status = "failed"
    /\ InfoOf(r).error = "stderr tail"
    /\ InfoOf(r).title = "paper"
    /\ InfoOf(r).model_config = "m1"

\* C8: for every job whose handler has started the thread or answered with
\* the id, get_task on that id finds info.json: it never answers 404,
\* wherever the job's run_task is.
C8_SubmittedIdFound ==
  \A r \in Reqs :
    (req[r].phase = "ok" \/ Started(r)) => GetTaskCode(req[r].id) # 404

\* C8 witness: get_task answered 200 for a submitted job whose run_task has
\* not yet finished its first write.
C8_Witness ==
  \E r \in Reqs :
    /\ req[r].phase = "ok"
    /\ sup[r].pc = "init_info"
    /\ resp = [op |-> "get_task", id |-> req[r].id, code |-> 200]

FetchFailures == {"nohtml", "nonzero", "nonzero_html", "timeout", "error"}

\* C9: a generate request whose fetch step failed (nonzero exit, timeout,
\* exception, or exit 0 with no document retrieved) has answered with an
\* error, has no run_task thread and no build, and, its id being no other
\* request's, has no info.json and no progress.json: get_task answers 404
\* for the id.
C9_FetchFailureStartsNothing ==
  \A r \in Reqs :
    req[r].fetch \in FetchFailures
      => /\ req[r].phase = "err_fetch"
         /\ ~Started(r)
         /\ child[r].st = "none"
         /\ (\A q \in Reqs \ {r} : req[q].id # req[r].id)
              => /\ InfoOf(r).file = "absent"
                 /\ prog[req[r].id].file = "absent"
                 /\ GetTaskCode(req[r].id) = 404

\* C10: requests that have drawn a task id have drawn different ids, so no
\* two jobs share a directory.
C10_DistinctIds ==
  \A r \in Reqs, q \in Reqs :
    (r # q /\ req[r].id # NoId /\ req[q].id # NoId) => req[r].id # req[q].id

\* C11: every stored Progress Record, and every one save_progress is about to
\* store, has percent = floor(current * 100 / total) when total > 0 and
\* percent = 0 when total = 0; and the loop leaves reading a line for the
\* exception handler only when an I/O operation failed, so a recognized line
\* with total 0 does not make run_task fail.
C11_PercentIsFloor ==
  /\ [](\A id \in TaskIds :
          prog[id].file = "ok"
            => IF prog[id].total > 0
                 THEN /\ prog[id].percent * prog[id].total
                           <= prog[id].current * 100
                      /\ prog[id].current * 100
                           < (prog[id].percent + 1) * prog[id].total
                 ELSE prog[id].percent = 0)
  /\ [](\A r \in Reqs :
          (sup[r].pc = "line_prog" /\ sup[r].rec.total = 0)
            => sup[r].rec.percent = 0)
  /\ [][\A r \in Reqs :
          (sup[r].pc = "read" /\ sup'[r].pc \notin {"read", "line_prog", "wait"})
            => faults' = faults + 1]_vars

\* C11 witnesses: the line "Q 0/0" has been stored with percent 0 and the
\* loop reads on; "Q 2/3" has been stored with percent 66.
C11_Witness ==
  \E r \in Reqs :
    /\ sup[r].pc = "read"
    /\ sup[r].line = <<"Q", "_", "0/0">>
    /\ prog[req[r].id].file = "ok"
    /\ prog[req[r].id].stage = "generating question analysis"
    /\ prog[req[r].id].total = 0
    /\ prog[req[r].id].percent = 0

\* C12: each recognized line's update is stored before the next line is
\* read, and from the last line to the moment info.json first holds
\* 'completed' (run_task has written the status and not yet opened
\* progress.json for the 'done' record) progress.json holds the update of the
\* last recognized line the build emitted.
C12_LastLineAtCompletion ==
  \A r \in Reqs :
    (/\ \/ sup[r].pc \in {"read", "wait"}
        \/ sup[r].pc = "term_info" /\ sup[r].out = "completed"
        \/ sup[r].pc = "term_prog" /\ sup[r].out = "completed" /\ ~sup[r].w
     /\ LineUpdate(sup[r].line) # NoUpdate)
      => prog[req[r].id] = LineUpdate(sup[r].line)

C14_NoProgressYet ==
  \A r \in Reqs :
    (req[r].phase = "ok" /\ sup[r].pc = "init_info" /\ faults = 0)
      => /\ GetTaskAnswer(req[r].id).code = 200
         /\ GetTaskAnswer(req[r].id).info.status = "building"
         /\ GetTaskAnswer(req[r].id).progress.file = "absent"

\* C15: while no I/O operation has failed and a job has been submitted,
\* list_tasks answers with one Job Record for every directory that holds an
\* info.json (the submitted job's among them) and for no other directory.
C15_ListsEveryRecord ==
  (faults = 0 /\ \E r \in Reqs : req[r].phase = "ok")
    => /\ ListTasksAnswer.code = 200
       /\ DOMAIN ListTasksAnswer.tasks
            = {id \in dirs : info[id].file # "absent"}
       /\ \A r \in Reqs :
            req[r].phase = "ok" => req[r].id \in DOMAIN ListTasksAnswer.tasks

\* C16: while no I/O operation has failed, once process.wait has returned
\* the build's exit code and run_task has recorded the outcome, the job's
\* status is 'completed' exactly when the exit code is 0; after exit 0 the
\* record has status 'completed' and then progress.json holds (done, 1, 1,
\* 100); after a nonzero exit the record has status 'failed' with the tail
\* of standard error as error (no error key for an empty standard error) and
\* then progress.json holds (failed, 0, 1, 0).  The status is in place
\* before the terminal progress is.
C16_ExitCodeDecides ==
  \A r \in Reqs :
    (/\ faults = 0
     /\ sup[r].out \in {"completed", "failed"}
     /\ sup[r].pc \in {"term_prog", "done"})
      => /\ InfoOf(r).file = "ok"
         /\ InfoOf(r).status = "completed" <=> child[r].rc = 0
         /\ InfoOf(r).status = "failed" <=> child[r].rc # 0
         /\ child[r].rc # 0
              => InfoOf(r).error
                   = IF sup[r].err = "" THEN "unset" ELSE sup[r].err
         /\ (sup[r].pc = "done" /\ child[r].rc = 0)
              => /\ prog[req[r].id].file = "ok"
                 /\ prog[req[r].id].stage = "done"
                 /\ prog[req[r].id].current = 1
                 /\ prog[req[r].id].total = 1
                 /\ prog[req[r].id].percent = 100
         /\ (sup[r].pc = "done" /\ child[r].rc # 0)
              => /\ prog[req[r].id].file = "ok"
                 /\ prog[req[r].id].stage = "failed"
                 /\ prog[req[r].id].current = 0
                 /\ prog[req[r].id].total = 1
                 /\ prog[req[r].id].percent = 0

\* C17: reading a line that matches none of the patterns writes nothing:
\* the step that takes such a line leaves progress.json and info.json of
\* every job as they were and run_task goes on to the next line, with no
\* write pending.
C17_UnmatchedLineWritesNothing ==
  [][\A r \in Reqs :
       (/\ sup[r].pc = "read"
        /\ sup'[r].line # sup[r].line
        /\ sup'[r].line # <<>>
        /\ MatchesAt(sup'[r].line, "Q") = {}
        /\ MatchesAt(sup'[r].line, "K") = {}
        /\ ~(Contains(sup'[r].line, "S")
               /\ (Contains(sup'[r].line, "P") \/ Contains(sup'[r].line, "K"))))
         => /\ prog' = prog
            /\ info' = info
            /\ sup'[r] = [sup[r] EXCEPT !.line = sup'[r].line]]_vars

\* C17 witness: after "K 1/2" was stored the loop has read "Q1/2", where no
\* white space separates marker and counts, and progress.json still holds
\* the knowledge-point counts.
C17_Witness ==
  \E r \in Reqs :
    /\ sup[r].pc = "read"
    /\ sup[r].line = <<"Q", "1/2">>
    /\ prog[req[r].id].file = "ok"
    /\ prog[req[r].id].stage = "generating knowledge summary"
    /\ prog[req[r].id].current = 1
    /\ InfoOf(r).file = "ok"
    /\ InfoOf(r).status = "building"

\* C18: the progress update run_task is about to store for a line is chosen
\* by the first rule that matches, in this order: question progress
\* done/total gives (generating question analysis, done, total); otherwise
\* knowledge-point progress done/total gives (generating knowledge summary,
\* done, total); otherwise the starting marker together with the
\* knowledge-point marker gives (analyzing knowledge points, 0, 1).  The
\* write for a line stores that update and is followed by the next read:
\* one write per line.
C18_FirstMatchingRule ==
  /\ [](\A r \in Reqs :
          sup[r].pc = "line_prog"
            => IF MatchesAt(sup[r].line, "Q") # {}
                 THEN /\ sup[r].rec.stage = "generating question analysis"
                      /\ sup[r].rec.current
                           = PairDone(FirstPair(sup[r].line, "Q"))
                      /\ sup[r].rec.total
                           = PairTotal(FirstPair(sup[r].line, "Q"))
               ELSE IF MatchesAt(sup[r].line, "K") # {}
                 THEN /\ sup[r].rec.stage = "generating knowledge summary"
                      /\ sup[r].rec.current
                           = PairDone(FirstPair(sup[r].line, "K"))
                      /\ sup[r].rec.total
                           = PairTotal(FirstPair(sup[r].line, "K"))
               ELSE /\ Contains(sup[r].line, "S")
                    /\ Contains(sup[r].line, "P") \/ Contains(sup[r].line, "K")
                    /\ sup[r].rec.stage = "analyzing knowledge points"
                    /\ sup[r].rec.current = 0
                    /\ sup[r].rec.total = 1)
  /\ [][\A r \in Reqs :
          (/\ sup[r].pc = "line_prog"
           /\ sup[r].w
           /\ sup'[r] # sup[r]
           /\ faults' = faults)
            => /\ sup'[r].pc = "read"
               /\ prog'[req[r].id] = sup[r].rec]_vars

\* C18 witness: for a line holding question progress 1/2 and then
\* knowledge-point progress 2/2, run_task is about to store the question
\* counts.
C18_Witness ==
  \E r \in Reqs :
    /\ sup[r].pc = "line_prog"
    /\ sup[r].line = <<"Q", "_", "1/2", "K", "_", "2/2">>
    /\ sup[r].rec.stage = "generating question analysis"
    /\ sup[r].rec.current = 1
    /\ sup[r].rec.total = 2

\* C19: every complete Job Record that carries an error key has status
\* 'failed'.
C19_ErrorOnlyWhenFailed ==
  \A id \in TaskIds :
    (info[id].file = "ok" /\ info[id].error # "unset")
      => info[id].status = "failed"

\* C20: whenever a complete progress.json holds the stage 'done' the job's
\* info.json is complete with status 'completed', and whenever it holds the
\* stage 'failed' info.json is complete with status 'failed'.
C20_TerminalStageImpliesStatus ==
  \A id \in TaskIds :
    /\ (prog[id].file = "ok" /\ prog[id].stage = "done")
         => (info[id].file = "ok" /\ info[id].status = "completed")
    /\ (prog[id].file = "ok" /\ prog[id].stage = "failed")
         => (info[id].file = "ok" /\ info[id].status = "failed")

====
